---- MODULE Spec2Model ----
(***************************************************************************)
(* A model of LeafCalc.py: the EstimateLeafArea class (estimate and        *)
(* preprocess, on one file and on a directory through a worker pool).      *)
(*                                                                         *)
(* An image is a sequence of rows, a row a sequence of pixels, a pixel a   *)
(* <<b, g, r>> triple of 8-bit samples.  An image file is a record         *)
(* [dir, base, ext, px, meta]: its path and what reading it returns.       *)
(* An area is kept exact, as the fraction num / den of cm2.                *)
(***************************************************************************)
EXTENDS Integers, Sequences, FiniteSets, TLC

\* ------------------------------------------------------------------ bounds
\* width of the one-row scans given to estimate
Width == 3
\* largest height and width of the images given to preprocess
MaxDim == 3
\* most entries of a directory
MaxFiles == 5

\* ------------------------------------------------------------- small sets
None == "None"
TmpDir == "/tmp/tmpdir"
InDirs == {"/in", "~/in"}
Thresholds == {-1, 0, 120, 255, 256}
Intensities == {0, 255}
CutOffs == {-1, 0, 2}
ResOverrides == {-100, 0, 100}
MetaRes == {0, 100, 200}

Min(a, b) == IF a < b THEN a ELSE b
Max(a, b) == IF a > b THEN a ELSE b

RECURSIVE SumSeq(_)
SumSeq(s) == IF s = <<>> THEN 0 ELSE Head(s) + SumSeq(Tail(s))

\* ------------------------------------------------------------ library calls
\* os.path.expanduser: a leading ~ becomes the home directory
expanduser(d) == IF d = "~/in" THEN "/home/in" ELSE d

\* a[lo:hi] of Python and numpy: indices clipped to the length, a negative index
\* counts from the end, an inverted range is empty
PyIndex(i, n) == IF i < 0 THEN Max(0, n + i) ELSE Min(i, n)
PySlice(s, lo, hi) == SubSeq(s, PyIndex(lo, Len(s)) + 1, PyIndex(hi, Len(s)))

\* a[r0:r1, c0:c1]
PySlice2(m, r0, r1, c0, c1) ==
    LET rows == PySlice(m, r0, r1)
    IN  [i \in 1..Len(rows) |-> PySlice(rows[i], c0, c1)]

\* a[r0:r1, c0:c1, :] = p, in place
PyAssign2(m, r0, r1, c0, c1, p) ==
    [i \in 1..Len(m) |->
        [j \in 1..Len(m[i]) |->
            IF /\ i > PyIndex(r0, Len(m))    /\ i <= PyIndex(r1, Len(m))
               /\ j > PyIndex(c0, Len(m[i])) /\ j <= PyIndex(c1, Len(m[i]))
            THEN p ELSE m[i][j]]]

\* scan.shape
Height(m) == Len(m)
Wid(m) == IF Len(m) = 0 THEN 0 ELSE Len(m[1])
IsEmpty(m) == Height(m) = 0 \/ Wid(m) = 0

\* cv2.cvtColor(scan, cv2.COLOR_BGR2GRAY): fixed-point luma, 14 fractional bits
BGR2GRAY(p) == (p[1] * 1868 + p[2] * 9617 + p[3] * 4899 + 8192) \div 16384
cvtColor(m) == [i \in 1..Len(m) |-> [j \in 1..Len(m[i]) |-> BGR2GRAY(m[i][j])]]

\* cv2.threshold(scan, T, 255, cv2.THRESH_BINARY_INV): 0 where src > T, 255 elsewhere
BinaryInv(v, T) == IF v > T THEN 0 ELSE 255
threshold(m, T) == [i \in 1..Len(m) |-> [j \in 1..Len(m[i]) |-> BinaryInv(m[i][j], T)]]

\* measure.label(scan, background=0): 8-connected regions of the non-zero cells,
\* numbered from 1 in raster order of their first cell
Cells(m) == {c \in (1..Height(m)) \X (1..Wid(m)) : TRUE}
Foreground(m) == {c \in Cells(m) : m[c[1]][c[2]] # 0}
Adjacent(a, b) ==
    /\ a[1] - b[1] \in {-1, 0, 1}
    /\ a[2] - b[2] \in {-1, 0, 1}
RECURSIVE Region(_, _)
Region(S, fg) ==
    LET N == S \cup {b \in fg : \E a \in S : Adjacent(a, b)}
    IN  IF N = S THEN S ELSE Region(N, fg)
Raster(c, m) == (c[1] - 1) * Wid(m) + c[2]
FirstCell(R, m) == CHOOSE c \in R : \A d \in R : Raster(c, m) <= Raster(d, m)
label(m) ==
    LET fg == Foreground(m)
        regions == {Region({c}, fg) : c \in fg}
        id(R) == Cardinality({Q \in regions : Raster(FirstCell(Q, m), m) <= Raster(FirstCell(R, m), m)})
    IN  [c \in Cells(m) |->
            IF c \in fg THEN id(CHOOSE R \in regions : c \in R) ELSE 0]

\* np.unique(leaflets, return_counts=True): the sorted distinct values and
\* how often each occurs
RECURSIVE SortedSeq(_)
SortedSeq(S) ==
    IF S = {} THEN <<>>
    ELSE LET x == CHOOSE y \in S : \A z \in S : y <= z
         IN  <<x>> \o SortedSeq(S \ {x})
unique(lm) ==
    LET ids == SortedSeq({lm[c] : c \in DOMAIN lm})
    IN  [ids |-> ids,
         counts |-> [k \in 1..Len(ids) |-> Cardinality({c \in DOMAIN lm : lm[c] = ids[k]})]]

\* leaflets[1][mask]: the elements whose mask entry is True, in order
RECURSIVE Select(_, _)
Select(s, mask) ==
    IF s = <<>> THEN <<>>
    ELSE (IF Head(mask) THEN <<Head(s)>> ELSE <<>>) \o Select(Tail(s), Tail(mask))

\* ------------------------------------------------------------------ state
VARIABLES
    estimator,  \* the EstimateLeafArea object of the calling process (its fields)
    ctor,       \* the arguments __init__ was called with
    fs,         \* the image files written so far: path -> image
    dirs,       \* the directories that exist
    ret,        \* the outcome of the last call of estimate or preprocess, with its locals
    pool        \* the multiprocessing.Pool of a directory call

vars == <<estimator, ctor, fs, dirs, ret, pool>>

PathOf(img) == [dir |-> img.dir, base |-> img.base, ext |-> img.ext]
NoExif == [has_exif |-> FALSE, x_resolution |-> 0, y_resolution |-> 0]
Exif(x, y) == [has_exif |-> TRUE, x_resolution |-> x, y_resolution |-> y]
Gray(v) == <<v, v, v>>

\* cv2.imwrite(path, image) of an image that is not empty (an empty one raises
\* cv2.error, see preprocess_steps): writes nothing, and only returns False, when
\* the directory does not exist
imwrite(fsys, exist, path, image) ==
    IF path.dir \in exist THEN (path :> image) @@ fsys ELSE fsys

\* ------------------------------------------------------- estimate, one file
\* mask as it would be without the line that removes the background label
mask_keeps_background(leaflets, cut_off) ==
    [k \in 1..Len(leaflets.ids) |-> ~(leaflets.counts[k] < cut_off)]

\* mask of the labels to keep: not below the cut-off, and not the background
mask(leaflets, cut_off) ==
    [k \in 1..Len(leaflets.ids) |->
        /\ ~(leaflets.counts[k] < cut_off)
        /\ ~(leaflets.ids[k] = 0)]

\* areas / ((res / 2.54) * (res / 2.54)), as an exact fraction
pixels_to_area(count, res) == [num |-> count * 64516, den |-> res * res * 10000]

\* a sum that leaves out the first region
sum_skips_first(areas) ==
    IF areas = <<>> THEN [num |-> 0, den |-> 1]
    ELSE [num |-> SumSeq([k \in 1..Len(areas) - 1 |-> areas[k + 1].num]), den |-> areas[1].den]

\* areas.sum()
sum(areas) ==
    IF areas = <<>> THEN [num |-> 0, den |-> 1]
    ELSE [num |-> SumSeq([k \in 1..Len(areas) |-> areas[k].num]), den |-> areas[1].den]

\* the returned DataFrame, a sequence of rows
DataFrame(img, areas, combine) ==
    IF combine
    THEN <<[filename |-> PathOf(img), Area |-> sum(areas)]>>
    ELSE [k \in 1..Len(areas) |-> [filename |-> PathOf(img), Area |-> areas[k]]]

Raised(op, img, err, res, fsys) ==
    [op |-> op, img |-> img, err |-> err, res |-> res, dims |-> <<0, 0>>, scan |-> <<>>,
     labels |-> <<>>, leaflets |-> [ids |-> <<>>, counts |-> <<>>], kept |-> <<>>, areas |-> <<>>,
     table |-> <<>>, fs |-> fsys]

\* estimate(img) when img is a file, run on the object self: the outcome, the
\* value self.res is left with, and the files as they are afterwards
estimate_file(self, img, fsys, exist) ==
    LET read == self.res = 0
        res == IF read THEN img.meta.x_resolution ELSE self.res
        scan == threshold(cvtColor(img.px), self.threshold)
        labels == label(scan)
        leaflets == unique(labels)
        kept == Select(leaflets.counts, mask(leaflets, self.cut_off))
        areas == [k \in 1..Len(kept) |-> pixels_to_area(kept[k], res)]
        write_to == [dir |-> expanduser(self.output_dir), base |-> img.base, ext |-> img.ext]
        saved == IF self.output_dir # None THEN imwrite(fsys, exist, write_to, scan) ELSE fsys
    IN  IF read /\ ~img.meta.has_exif
            THEN Raised("estimate", img, "MissingMetadata", self.res, fsys)
        ELSE IF read /\ img.meta.x_resolution # img.meta.y_resolution
            THEN Raised("estimate", img, "AnisotropicResolution", self.res, fsys)
        ELSE IF self.threshold < 0 \/ self.threshold > 255
            THEN Raised("estimate", img, "InvalidThreshold", res, fsys)
        ELSE IF self.cut_off < 0
            THEN Raised("estimate", img, "InvalidCutoff", res, fsys)
        ELSE [Raised("estimate", img, None, res, saved) EXCEPT
                 !.dims = <<Height(scan), Wid(scan)>>, !.scan = scan, !.labels = labels,
                 !.leaflets = leaflets, !.kept = kept, !.areas = areas,
                 !.table = DataFrame(img, areas, self.combine)]

\* ----------------------------------------------------- preprocess, one file
White == <<255, 255, 255>>
Red == <<0, 0, 255>>
\* f'{os.path.split(img)[0]}/preprocessed'
PreprocessedDir(d) == IF d = "/in" THEN "/in/preprocessed" ELSE "~/in/preprocessed"

\* scan[self.crop:dims[0] - self.crop, self.crop:dims[1] - self.crop]
crop_edges(scan, dims, crop) == PySlice2(scan, crop, dims[1] - crop, crop, dims[2] - crop)

\* the three channel assignments of the masking window
mask_scale(scan, oy, ox, n) == PyAssign2(scan, oy, oy + n, ox, ox + n, White)

\* the three channel assignments of the scale bar
add_scale(scan, n) == PyAssign2(scan, 0, n, 0, n, Red)

\* the steps of preprocess(img) after the image is read, img a file: the error
\* raised, if any, the image as it is when the call ends, and the files afterwards
preprocess_steps(self, img, fsys, exist) ==
    LET dims == <<Height(img.px), Wid(img.px)>>
        cropped == IF self.crop # 0 THEN crop_edges(img.px, dims, self.crop) ELSE img.px
        masked == IF self.mask_scale # 0
                  THEN mask_scale(cropped, self.mask_offset_y, self.mask_offset_x, self.mask_pixels)
                  ELSE cropped
        scaled == IF self.red_scale # 0 THEN add_scale(masked, self.red_scale_pixels) ELSE masked
        file_name == [dir |-> expanduser(self.output_dir), base |-> img.base, ext |-> "jpg"]
        out(err, scan, files) ==
            [Raised("preprocess", img, err, self.res, files) EXCEPT !.dims = dims, !.scan = scan]
    IN  IF self.crop # 0 /\ self.crop < 0
            THEN out("NegativeCrop", img.px, fsys)
        ELSE IF self.crop # 0 /\ (self.crop > dims[1] \/ self.crop > dims[2])
            THEN out("CropExceedsBounds", img.px, fsys)
        ELSE IF self.mask_scale # 0
                /\ (self.mask_offset_y < 0 \/ self.mask_offset_x < 0 \/ self.mask_pixels < 0)
            THEN out("NegativeMaskParameter", cropped, fsys)
        ELSE IF self.mask_scale # 0
                /\ (\/ self.mask_offset_y + self.mask_pixels > dims[1]
                    \/ self.mask_offset_x + self.mask_pixels > dims[2])
            THEN out("MaskExceedsBounds", cropped, fsys)
        ELSE IF self.red_scale # 0
                /\ (self.red_scale_pixels > dims[1] \/ self.red_scale_pixels > dims[2])
            THEN out("ScaleBarExceedsBounds", masked, fsys)
        ELSE IF self.output_dir = None
            THEN out("TypeError", scaled, fsys)
        ELSE IF IsEmpty(scaled)
            THEN out("cv2.error", scaled, fsys)
        ELSE out(None, scaled, imwrite(fsys, exist, file_name, scaled))

\* the comparison with the file name, os.path.split(img)[1], in place of the directory
identical_paths_tail(img, self) == img.base = self.output_dir

\* os.path.split(img)[0] == self.output_dir
identical_paths(img, self) == img.dir = self.output_dir

\* preprocess(img) when img is a file: the outcome and the directories afterwards
preprocess_file(self, img, fsys, exist) ==
    LET output_dir == PreprocessedDir(img.dir)
        made == IF self.output_dir = None THEN exist \cup {output_dir} ELSE exist
        out(r) == [r |-> r, dirs |-> made]
    IN  IF self.output_dir = None /\ output_dir \in exist
            THEN [r |-> Raised("preprocess", img, "FileExistsError", self.res, fsys), dirs |-> exist]
        ELSE IF identical_paths(img, self)
            THEN out(Raised("preprocess", img, "IdenticalSourceDestination", self.res, fsys))
        ELSE out(preprocess_steps(self, img, fsys, made))

\* ------------------------------------------------------------ construction
Defaults ==
    [red_scale |-> 0, red_scale_pixels |-> 0, mask_pixels |-> 0, mask_scale |-> 0,
     mask_offset_y |-> 0, mask_offset_x |-> 0, threshold |-> 120, cut_off |-> 10000,
     output_dir |-> TmpDir, crop |-> 0, combine |-> TRUE, res |-> 0, workers |-> 1]

NoPool ==
    [state |-> "none", op |-> "none", images |-> <<>>, tasks |-> <<>>, left |-> 0,
     workers |-> <<>>, results |-> <<>>, error |-> None]
NoCall == Raised("none", [dir |-> "", base |-> "", ext |-> "", px |-> <<>>, meta |-> NoExif], None, 0, <<>>)

\* the scans estimate is given: one row of Width gray pixels
Scans ==
    {[dir |-> "/in", base |-> b, ext |-> "jpg", px |-> <<[j \in 1..Width |-> Gray(v[j])]>>, meta |-> m] :
        b \in {"a"}, v \in [1..Width -> Intensities],
        m \in {NoExif, Exif(100, 200)} \cup {Exif(x, x) : x \in MetaRes}}

InitEstimate ==
    /\ \E t \in Thresholds, c \in CutOffs, b \in BOOLEAN, r \in ResOverrides, o \in {"/out"} :
         estimator = [Defaults EXCEPT !.threshold = t, !.cut_off = c, !.combine = b,
                                      !.res = r, !.output_dir = o]
    /\ ctor = estimator
    /\ fs = <<>>
    /\ dirs = {"/in", "/home/in", "/out"}
    /\ ret = NoCall
    /\ pool = NoPool

\* estimator.estimate(img), img a file
EstimateFile ==
    \E img \in Scans :
        \E r \in {estimate_file(estimator, img, fs, dirs)} :
            /\ ret' = [r EXCEPT !.fs = <<>>]
            /\ estimator' = [estimator EXCEPT !.res = r.res]
            /\ fs' = r.fs
            /\ UNCHANGED <<ctor, dirs, pool>>

\* estimator.estimate(img), img neither a file nor a directory
EstimateNoPath ==
    /\ ret' = Raised("estimate", [NoCall.img EXCEPT !.dir = "/nowhere"], "InvalidInputPath", estimator.res, <<>>)
    /\ UNCHANGED <<estimator, ctor, fs, dirs, pool>>

NextEstimate == EstimateFile \/ EstimateNoPath

SpecEstimate == InitEstimate /\ [][NextEstimate]_vars

\* ------------------------------------------------------ preprocess, one file
Crops == {-1, 0, 1, 2}
Offsets == {-1, 0, 1}
MaskPixels == {-1, 0, 1, 2}
ScalePixels == {0, 1, MaxDim + 1}
OutDirs == {TmpDir, "/out", "/in", None}
OldImage == <<<<Gray(7)>>>>
OutFile == [dir |-> "/out", base |-> "a", ext |-> "jpg"]

\* the images preprocess is given: h x w pixels of one gray
Pictures ==
    {[dir |-> d, base |-> "a", ext |-> "png", px |-> [i \in 1..h |-> [j \in 1..w |-> Gray(120)]],
      meta |-> NoExif] : d \in InDirs, h \in 1..MaxDim, w \in 1..MaxDim}

InitPreprocess ==
    /\ \E c \in Crops, ms \in {0, 1}, oy \in Offsets, ox \in Offsets, mp \in MaskPixels,
          rs \in {0, 1}, rp \in ScalePixels, o \in OutDirs :
         estimator = [Defaults EXCEPT !.crop = c, !.mask_scale = ms, !.mask_offset_y = oy,
                                      !.mask_offset_x = ox, !.mask_pixels = mp, !.red_scale = rs,
                                      !.red_scale_pixels = rp, !.output_dir = o]
    /\ ctor = estimator
    /\ fs \in {<<>>, OutFile :> OldImage}
    /\ dirs \in {{"/in", "/home/in", "/out"}, {"/in", "/home/in", "/out", "/in/preprocessed"}}
    /\ ret = NoCall
    /\ pool = NoPool

\* estimator.preprocess(img), img a file
PreprocessFile ==
    /\ ret.op = "none"
    /\ \E img \in Pictures :
        \E p \in {preprocess_file(estimator, img, fs, dirs)} :
            /\ ret' = [p.r EXCEPT !.fs = <<>>]
            /\ fs' = p.r.fs
            /\ dirs' = p.dirs
            /\ UNCHANGED <<estimator, ctor, pool>>

\* estimator.preprocess(img), img neither a file nor a directory
PreprocessNoPath ==
    /\ ret.op = "none"
    /\ ret' = Raised("preprocess", [NoCall.img EXCEPT !.dir = "/nowhere"], "InvalidInputPath", estimator.res, <<>>)
    /\ UNCHANGED <<estimator, ctor, fs, dirs, pool>>

\* os.path.abspath: a relative path is put under the working directory
abspath(d) == IF d = "~/in" THEN "/cwd/~/in" ELSE d
Missing == [NoCall.img EXCEPT !.dir = "/new", !.base = "a", !.ext = "png"]

\* the preprocess command: the object holds what the command line gave (crop,
\* red_scale, mask_scale and the mask offsets; the other fields at their defaults)
MainPreprocess ==
    /\ ret.op = "none"
    /\ estimator.mask_pixels = 0 /\ estimator.red_scale_pixels = 0
    /\ estimator.output_dir = TmpDir
    /\ \E output_dir \in {"/in", "/out", "/new"}, img \in Pictures \cup {Missing} :
        IF output_dir \in dirs
        THEN /\ ret' = Raised("main", img, "OutputDirectoryExists", estimator.res, <<>>)
             /\ UNCHANGED <<estimator, ctor, fs, dirs, pool>>
        ELSE IF abspath(img.dir) = output_dir
        THEN /\ ret' = Raised("main", img, "IdenticalSourceDestination", estimator.res, <<>>)
             /\ estimator' = [estimator EXCEPT !.output_dir = output_dir]
             /\ dirs' = dirs \cup {output_dir}
             /\ UNCHANGED <<ctor, fs, pool>>
        ELSE \E p \in {preprocess_file([estimator EXCEPT !.output_dir = output_dir], img, fs,
                                       dirs \cup {output_dir})} :
             /\ ret' = [p.r EXCEPT !.fs = <<>>]
             /\ estimator' = [estimator EXCEPT !.output_dir = output_dir]
             /\ fs' = p.r.fs
             /\ dirs' = p.dirs
             /\ UNCHANGED <<ctor, pool>>

NextPreprocess == PreprocessFile \/ PreprocessNoPath \/ MainPreprocess

SpecPreprocess == InitPreprocess /\ [][NextPreprocess]_vars

\* ------------------------------------------------- a directory, through the pool
\* multiprocessing.Pool.map and map_async: the items are cut into chunks of
\* ceil(n / (4 * workers)); a chunk is one task, sent with its own pickled copy of
\* the bound method (and so of the object); an item that raises ends its chunk
ChunkSize(n, w) == (n \div (w * 4)) + (IF n % (w * 4) # 0 THEN 1 ELSE 0)
RECURSIVE Chunks(_, _, _)
Chunks(from, n, size) ==
    IF from > n THEN <<>>
    ELSE <<[k \in 1..(Min(n, from + size - 1) - from + 1) |-> from + k - 1]>>
            \o Chunks(from + size, n, size)

\* returning the first frame only
concat_first(results) == IF results = <<>> THEN <<>> ELSE Head(results)

\* pd.concat(results): the rows of the frames, in the order of the frames; an
\* empty list raises ValueError
RECURSIVE concat(_)
concat(results) == IF results = <<>> THEN <<>> ELSE Head(results) \o concat(Tail(results))

Names == <<"a", "b", "c", "d", "e", "f", "g">>
InDir == [NoCall.img EXCEPT !.dir = "/in"]
\* what a directory entry can be: a 1 x 3 scan with two dark specks, tagged
\* 100 dpi, or a dark 2 x 2 scan without resolution metadata
Kinds ==
    {[px |-> <<<<Gray(0), Gray(255), Gray(0)>>>>, meta |-> Exif(100, 100)],
     [px |-> <<<<Gray(0), Gray(0)>>, <<Gray(0), Gray(0)>>>>, meta |-> NoExif]}
\* os.listdir(img), each name joined to img
Listings ==
    UNION {{[i \in 1..n |-> [dir |-> "/in", base |-> Names[i], ext |-> "jpg",
                             px |-> k[i].px, meta |-> k[i].meta]] : k \in [1..n -> Kinds]} :
           n \in 0..MaxFiles}

Idle == [chunk |-> <<>>, vals |-> <<>>, self |-> Defaults]

InitBatch ==
    /\ \E r \in {0, 100}, b \in BOOLEAN, w \in {0, 1, 2}, rs \in {0, 1} :
         estimator = [Defaults EXCEPT !.res = r, !.combine = b, !.workers = w, !.cut_off = 0,
                                      !.red_scale = rs, !.red_scale_pixels = 2,
                                      !.output_dir = "/out"]
    /\ ctor = estimator
    /\ fs = <<>>
    /\ dirs = {"/in", "/home/in", "/out"}
    /\ ret = NoCall
    /\ pool = NoPool

\* multiprocessing.Pool(self.workers), then map or map_async of the entries
StartPool(op) ==
    /\ ret.op = "none" /\ pool.state = "none"
    /\ \E images \in Listings :
        IF estimator.workers < 1
        THEN /\ ret' = Raised(op, InDir, "ValueError", estimator.res, <<>>)
             /\ UNCHANGED pool
        ELSE /\ pool' = [state |-> "running", op |-> op, images |-> images,
                        tasks |-> Chunks(1, Len(images), ChunkSize(Len(images), estimator.workers)),
                        left |-> Len(Chunks(1, Len(images), ChunkSize(Len(images), estimator.workers))),
                        workers |-> [w \in 1..estimator.workers |-> Idle],
                        results |-> [i \in 1..Len(images) |-> <<>>],
                        error |-> None]
             /\ UNCHANGED ret
    /\ UNCHANGED <<estimator, ctor, fs, dirs>>

\* estimator.estimate(img), img a directory
EstimateDir == StartPool("estimate_dir")

\* estimator.preprocess(img), img a directory
PreprocessDir == StartPool("preprocess_dir")

\* a worker process takes the next task and unpickles its copy of the object
TakeTask(w) ==
    /\ pool.state = "running"
    /\ pool.workers[w].chunk = <<>>
    /\ pool.tasks # <<>>
    /\ pool' = [pool EXCEPT !.tasks = Tail(@),
                            !.workers[w] = [chunk |-> Head(pool.tasks), vals |-> <<>>,
                                            self |-> estimator]]
    /\ UNCHANGED <<estimator, ctor, fs, dirs, ret>>

\* the outcome of one item in worker w: the chunk goes on, ends, or is aborted
ItemDone(w, i, err, table, res) ==
    LET me == pool.workers[w]
        vals == Append(me.vals, <<i, table>>)
    IN  IF err # None
        THEN [pool EXCEPT !.workers[w] = Idle, !.left = @ - 1,
                          !.error = IF @ = None THEN err ELSE @]
        ELSE IF Len(me.chunk) > 1
        THEN [pool EXCEPT !.workers[w] = [chunk |-> Tail(me.chunk), vals |-> vals,
                                          self |-> [me.self EXCEPT !.res = res]]]
        ELSE [pool EXCEPT !.workers[w] = Idle, !.left = @ - 1,
                          !.results = [j \in DOMAIN @ |->
                              IF \E v \in 1..Len(vals) : vals[v][1] = j
                              THEN vals[CHOOSE v \in 1..Len(vals) : vals[v][1] = j][2]
                              ELSE @[j]]]

\* a worker process runs self.estimate or self.preprocess on the next entry of its task
RunItem(w) ==
    /\ pool.state = "running"
    /\ pool.workers[w].chunk # <<>>
    /\ LET me == pool.workers[w]
           i == Head(me.chunk)
       IN  IF pool.op = "estimate_dir"
           THEN \E r \in {estimate_file(me.self, pool.images[i], fs, dirs)} :
                   /\ pool' = ItemDone(w, i, r.err, r.table, r.res)
                   /\ fs' = r.fs
                   /\ UNCHANGED dirs
           ELSE \E p \in {preprocess_file(me.self, pool.images[i], fs, dirs)} :
                   /\ pool' = ItemDone(w, i, p.r.err, <<>>, p.r.res)
                   /\ fs' = p.r.fs
                   /\ dirs' = p.dirs
    /\ UNCHANGED <<estimator, ctor, ret>>

\* pool.map returns the results in the order of the entries, or raises the first
\* error once every task has ended; then pool.close(), pool.join(), pd.concat
MapReturn ==
    /\ pool.state = "running" /\ pool.op = "estimate_dir" /\ pool.left = 0
    /\ pool' = [pool EXCEPT !.state = "closed"]
    /\ ret' = IF pool.error # None
              THEN Raised("estimate_dir", InDir, pool.error, estimator.res, <<>>)
              ELSE IF pool.results = <<>>
              THEN Raised("estimate_dir", InDir, "ValueError", estimator.res, <<>>)
              ELSE [Raised("estimate_dir", InDir, None, estimator.res, <<>>) EXCEPT
                       !.table = concat(pool.results)]
    /\ UNCHANGED <<estimator, ctor, fs, dirs>>

\* pool.map_async is not waited for and its result not read: pool.close() and
\* pool.join() return once every task has ended, and preprocess returns None
JoinReturn ==
    /\ pool.state = "running" /\ pool.op = "preprocess_dir" /\ pool.left = 0
    /\ pool' = [pool EXCEPT !.state = "closed"]
    /\ ret' = Raised("preprocess_dir", InDir, None, estimator.res, <<>>)
    /\ UNCHANGED <<estimator, ctor, fs, dirs>>

NextBatch ==
    \/ EstimateDir
    \/ PreprocessDir
    \/ \E w \in 1..2 : w \in DOMAIN pool.workers /\ TakeTask(w)
    \/ \E w \in 1..2 : w \in DOMAIN pool.workers /\ RunItem(w)
    \/ MapReturn
    \/ JoinReturn

SpecBatch == InitBatch /\ [][NextBatch]_vars

\* ------------------------------------------------- claims on estimate, one file
Returned(op) == ret.op = op /\ ret.err = None
GrayAt(img, c) == BGR2GRAY(img.px[c[1]][c[2]])

\* C1: a pixel is foreground in the binary mask if and only if its intensity is
\* below the threshold; a pixel at the threshold is background, so an all-white
\* image has no foreground pixel, also for threshold 255.
C1_ForegroundIffBelow ==
    (Returned("estimate") /\ ret.res > 0) =>
        \A c \in Cells(ret.scan) :
            (ret.scan[c[1]][c[2]] = 255) <=> (GrayAt(ret.img, c) < estimator.threshold)

\* C2: the surviving regions are exactly the labels other than 0 whose pixel count
\* is at least the cut-off, each with its pixel count unchanged; label 0 is dropped
\* whatever its count, and a mask that is all background leaves no region and no error.
PixelCount(lm, id) == Cardinality({c \in DOMAIN lm : lm[c] = id})
LabelsOf(lm) == {lm[c] : c \in DOMAIN lm}
C2_Survivors ==
    (ret.op = "estimate" /\ ret.err \in {None, "InvalidCutoff"}) =>
        /\ (estimator.cut_off >= 0) <=> (ret.err = None)
        /\ ret.err = None =>
            /\ \A n \in 0..Cardinality(DOMAIN ret.labels) :
                 Cardinality({k \in DOMAIN ret.kept : ret.kept[k] = n})
                   = Cardinality({id \in LabelsOf(ret.labels) :
                        id # 0 /\ PixelCount(ret.labels, id) = n /\ n >= estimator.cut_off})
            /\ (LabelsOf(ret.labels) = {0}) => (ret.kept = <<>>)
C2_Witness ==
    /\ Returned("estimate")
    /\ estimator.cut_off = 2
    /\ ret.kept = <<2>>
    /\ PixelCount(ret.labels, 0) = 1

\* C4: resolving the resolution leaves the configured res as it was: with an
\* override of 0 the field stays 0 and each file's area is computed from the
\* resolution embedded in that file.
C4_OwnResolution ==
    (Returned("estimate") /\ ctor.res = 0) =>
        /\ estimator.res = 0
        /\ ret.res = ret.img.meta.x_resolution

\* C7: no measurement is returned that was computed from a resolution that is
\* not positive: such a call fails with InvalidResolution.
C7_PositiveResolution == Returned("estimate") => ret.res > 0

\* C9: the area of the one row of combine = true is the sum of the areas of the
\* rows of combine = false; combine = true gives exactly one row (area 0 when no
\* region survived), combine = false one row per surviving region, and every row
\* carries the path of the file.
RowNums(t) == [k \in 1..Len(t) |-> t[k].Area.num]
C9_CombineIsSum ==
    Returned("estimate") =>
        LET other == DataFrame(ret.img, ret.areas, ~estimator.combine)
            one == IF estimator.combine THEN ret.table ELSE other
            many == IF estimator.combine THEN other ELSE ret.table
        IN  /\ Len(one) = 1
            /\ Len(many) = Len(ret.kept)
            /\ one[1].Area.num = SumSeq(RowNums(many))
            /\ \A k \in 1..Len(many) :
                 /\ many[k].Area = pixels_to_area(ret.kept[k], ret.res)
                 /\ one[1].Area.den = many[k].Area.den
            /\ (ret.kept = <<>>) => (one[1].Area.num = 0)
            /\ \A k \in 1..Len(ret.table) : ret.table[k].filename = PathOf(ret.img)
C9_Witness ==
    /\ Returned("estimate")
    /\ estimator.combine
    /\ Len(ret.kept) = 2
    /\ ret.table[1].Area.num > 0

\* ----------------------------------------------- claims on preprocess, one file
\* the call was given an output directory and read the image: it did not fail
\* on its paths
ReadImage ==
    /\ ret.op = "preprocess"
    /\ estimator.output_dir # None
    /\ ret.err \notin {"InvalidInputPath", "FileExistsError", "IdenticalSourceDestination"}

\* C5: with crop = k > 0 on an H x W image, the call fails with CropExceedsBounds
\* when 2k > H or 2k > W, and otherwise the cropped image has H - 2k rows and
\* W - 2k columns.
C5_CropBounds ==
    (ReadImage /\ estimator.crop > 0) =>
        LET k == estimator.crop
            H == ret.dims[1]
            W == ret.dims[2]
        IN  IF 2 * k > H \/ 2 * k > W
            THEN ret.err = "CropExceedsBounds"
            ELSE /\ Height(ret.scan) = H - 2 * k
                 /\ Height(ret.scan) > 0 => Wid(ret.scan) = W - 2 * k

\* C8: a preprocess of one file that fails with a validation error has written
\* no image file and changed none; with output_dir equal to the directory of the
\* input file it fails with IdenticalSourceDestination.
ValidationErrors ==
    {"IdenticalSourceDestination", "NegativeCrop", "CropExceedsBounds",
     "NegativeMaskParameter", "MaskExceedsBounds", "ScaleBarExceedsBounds",
     "OutputDirectoryExists"}
C8_NoWriteOnFailure ==
    /\ (ret.op \in {"preprocess", "main"} /\ ret.err \in ValidationErrors) =>
          \A path \in DOMAIN fs : fs[path] = OldImage
    /\ (ret.op = "preprocess" /\ ret.err # "FileExistsError"
            /\ ret.img.dir = estimator.output_dir) =>
          ret.err = "IdenticalSourceDestination"
C8_Witness ==
    /\ ret.op = "preprocess"
    /\ ret.err = "ScaleBarExceedsBounds"
    /\ estimator.mask_scale # 0
    /\ estimator.output_dir = "/out"
    /\ OutFile \in DOMAIN fs

\* C10: the mask bounds are checked against the image being masked, the cropped
\* one when a crop is enabled: a window reaching past its height or width fails
\* with MaskExceedsBounds, so a preprocess that succeeds has whitened a full
\* mask_pixels x mask_pixels window.
WhiteCells(m) == {c \in Cells(m) : m[c[1]][c[2]] = White}
C10_MaskWithinImage ==
    (/\ ReadImage
     /\ estimator.mask_scale # 0
     /\ estimator.crop >= 0
     /\ 2 * estimator.crop < ret.dims[1] /\ 2 * estimator.crop < ret.dims[2]
     /\ ret.err \notin {"NegativeCrop", "CropExceedsBounds", "NegativeMaskParameter"}) =>
        /\ (\/ estimator.mask_offset_y + estimator.mask_pixels > Height(ret.scan)
            \/ estimator.mask_offset_x + estimator.mask_pixels > Wid(ret.scan))
              => ret.err = "MaskExceedsBounds"
        /\ (ret.err = None /\ estimator.red_scale = 0)
              => Cardinality(WhiteCells(ret.scan)) = estimator.mask_pixels * estimator.mask_pixels

\* ------------------------------------------------------ claims on a directory
\* C3: when preprocess is given a directory and the preprocess of an entry fails,
\* the directory call does not return normally: it propagates the failure, as
\* estimate on a directory does.
C3_FailurePropagates ==
    (ret.op \in {"estimate_dir", "preprocess_dir"} /\ pool.error # None) => ret.err # None

\* every entry is an image estimate measures without error
AllValid == \A i \in 1..Len(pool.images) : estimate_file(ctor, pool.images[i], <<>>, {}).err = None
RowsOf(i) == {k \in 1..Len(ret.table) : ret.table[k].filename = PathOf(pool.images[i])}
OneRowPerFile ==
    /\ ret.err = None
    /\ Len(ret.table) = Len(pool.images)
    /\ \A i \in 1..Len(pool.images) : Cardinality(RowsOf(i)) = 1

\* C6 as claimed: estimate on a directory of N valid images with combine = true
\* returns exactly N rows, one per file with that file's path, whatever the
\* number of workers and the order in which they finish.
C6_OneRowPerFile ==
    (ret.op = "estimate_dir" /\ pool.state = "closed" /\ estimator.combine /\ AllValid)
        => OneRowPerFile

\* C6, amended: the same for a directory of at least one valid image (for an empty
\* directory there is nothing to concatenate and the call fails).
C6_OneRowPerFileNonEmpty ==
    (ret.op = "estimate_dir" /\ pool.state = "closed" /\ estimator.combine /\ AllValid
        /\ Len(pool.images) >= 1)
        => OneRowPerFile
C6_Witness ==
    /\ ret.op = "estimate_dir" /\ pool.state = "closed" /\ estimator.combine /\ AllValid
    /\ estimator.workers = 2
    /\ Len(ret.table) = 3
    /\ \E i, j \in 1..3 : pool.images[i].meta # pool.images[j].meta

====
